---- MODULE Spec2Model ----
(***************************************************************************)
(* State-machine model of capture/arducam.py: the ArduCamSource lifecycle  *)
(* (constructor, _init_cam, close, re_init, capture_frame) and the         *)
(* exposure_time register accessors, against a nondeterministic native     *)
(* layer (the `arducam` library, imported as `ac`).                        *)
(*                                                                         *)
(* Execution contexts:                                                     *)
(*   - the owner, which runs __init__, re_init and close, one statement    *)
(*     group at a time (pc);                                               *)
(*   - the frame consumer, which calls capture_frame;                      *)
(*   - configuration threads, which run the exposure_time getter and       *)
(*     setter one native call at a time (tpc).                             *)
(***************************************************************************)
EXTENDS Integers, Sequences, FiniteSets, TLC

VARIABLES
    pc,         \* owner's position: "new", "failed", "idle", or a statement label
    op,         \* owner's operation in progress or last finished
    new_id,     \* re_init's argument
    cam_id,     \* self._cam_id
    active,     \* self._active
    init_done,  \* self._init_done
    ret,        \* _init_cam's local `ret`
    raised,     \* exception that left the owner's last operation, or "none"
    logmsg,     \* last ArduCamCriticalError message logged by __init__ / re_init
    trace,      \* native calls made by the owner's operation, in order
    lastcall,   \* most recent native call of any execution context
    closed,     \* close() has run and no re_init has adopted a device since
    cap,        \* what the frame consumer's last capture_frame did
    regs,       \* native layer: byte registers of each attached device
    flaky,      \* native layer: whether its register calls can raise
    tpc,        \* configuration threads: position in the accessor
    tv,         \* configuration threads: new_exposure_time
    th,         \* configuration threads: local h (hex digits of the value)
    tw,         \* configuration threads: int(w, 16), the byte about to be written
    tacc,       \* configuration threads: hex digits the getter has gathered
    tres,       \* configuration threads: outcome of the last accessor call
    tpre,       \* configuration threads: register bank when the setter began
    obs,        \* configuration threads: exposures a serialized getter could return
    attached,   \* native layer: the devices attached now, in the native layer's order
    mgr_pc,     \* ArduCamManager: "new" before __init__, "ready" after
    mgr_devices,\* ArduCamManager._devices
    listing,    \* what the last get_devices call returned
    fresh       \* no device was attached or detached since that call

vars == <<pc, op, new_id, cam_id, active, init_done, ret, raised, logmsg, trace,
          lastcall, closed, cap, regs, flaky, tpc, tv, th, tw, tacc, tres, tpre, obs,
          attached, mgr_pc, mgr_devices, listing, fresh>>

ownerVars == <<pc, op, new_id, cam_id, active, init_done, ret, raised, logmsg,
               trace, closed>>

threadVars == <<tpc, tv, th, tw, tacc, tres, tpre, obs>>

mgrVars == <<attached, mgr_pc, mgr_devices, listing, fresh>>

----------------------------------------------------------------------------
(* Bounds and inputs *)

MaxId == 1

\* integer ids handed to the constructor and to re_init
IntIds == (0 - 1)..MaxId

IntId(n) == [isint |-> TRUE, n |-> n]

\* an id that is not an int (a str, a float, None)
NonIntId == [isint |-> FALSE, n |-> 0]

IdInputs == {IntId(n) : n \in IntIds} \cup {NonIntId}

\* devices 0 and 1 are the ones core.init opens
Devices == {0, 1}

Threads == {1, 2}

\* at most this many devices are attached at a time
MaxAttached == 2

Serials == {"A", "B", "C"}

\* what ac.get_devices() holds for one device
DeviceInputs == [serial : Serials, usb_index : 0..MaxAttached]

----------------------------------------------------------------------------
(* ERROR_CODES *)

ERROR_CODES ==
    (0 :> "USB_CAMERA_NO_ERROR") @@
    (65281 :> "USB_CAMERA_USB_CREATE_ERROR") @@
    (65282 :> "USB_CAMERA_USB_SET_CONTEXT_ERROR") @@
    (65283 :> "USB_CAMERA_VR_COMMAND_ERROR") @@
    (65284 :> "USB_CAMERA_USB_VERSION_ERROR") @@
    (65285 :> "USB_CAMERA_BUFFER_ERROR") @@
    (65291 :> "USB_CAMERA_I2C_BIT_ERROR") @@
    (65292 :> "USB_CAMERA_I2C_NACK_ERROR") @@
    (65293 :> "USB_CAMERA_I2C_TIMEOUT") @@
    (65312 :> "USB_CAMERA_USB_TASK_ERROR") @@
    (65313 :> "USB_CAMERA_DATA_OVERFLOW_ERROR") @@
    (65314 :> "USB_CAMERA_DATA_LACK_ERROR") @@
    (65315 :> "USB_CAMERA_FIFO_FULL_ERROR") @@
    (65316 :> "USB_CAMERA_DATA_LEN_ERROR") @@
    (65317 :> "USB_CAMERA_FRAME_INDEX_ERROR") @@
    (65318 :> "USB_CAMERA_USB_TIMEOUT_ERROR") @@
    (65328 :> "USB_CAMERA_READ_EMPTY_ERROR") @@
    (65329 :> "USB_CAMERA_DEL_EMPTY_ERROR") @@
    (65361 :> "USB_CAMERA_SIZE_EXCEED_ERROR") @@
    (65377 :> "USB_USERDATA_ADDR_ERROR") @@
    (65378 :> "USB_USERDATA_LEN_ERROR") @@
    (65393 :> "USB_BOARD_FW_VERSION_NOT_SUPPORT_ERROR") @@
    (65536 :> "config file not found")

\* 0x0000: 'USB_CAMERA_NO_ERROR'
NO_ERROR == 0

\* status codes the native layer returns in the model: success, two codes of
\* the table (0xFF71, 0x10000) and one code the table does not hold (0x1234)
StatusInputs == {NO_ERROR, 65393, 65536, 4660}

AC_FRAME_SIZE == <<640, 480>>

----------------------------------------------------------------------------
(* Records kept about what the program did *)

NoCall == [fn |-> "none", id |-> IntId(0)]

Call(fn, id) == [fn |-> fn, id |-> id]

NoLog == [kind |-> "none", code |-> 0, label |-> ""]

NoCapture == [called |-> FALSE, was_active |-> FALSE, was_closed |-> FALSE,
              native |-> FALSE, answer |-> "none", raised |-> "none", shape |-> "none",
              buffer |-> "none", dims |-> <<0, 0>>]

\* the object exists and its constructor has returned
Constructed == pc \notin {"new", "failed"} /\ ~(op = "ctor" /\ pc # "idle")

----------------------------------------------------------------------------
(* The native layer's answers *)

\* initialize_device / begin_capture: a status code, or RuntimeError
StatusOutcomes ==
    {[kind |-> "status", code |-> c] : c \in StatusInputs}
        \cup {[kind |-> "RuntimeError", code |-> 0]}

\* end_capture / close_device: return, or RuntimeError
ShutdownOutcomes == {"ok", "RuntimeError"}

\* capture_img: an image, None, or RuntimeError
CaptureOutcomes == {"image", "None", "RuntimeError"}

----------------------------------------------------------------------------
(* __init__ and _init_cam *)

\* the type check is missing
IsIntId_m(id) == TRUE

\* isinstance(self._cam_id, int)
IsIntId(id) == id.isint

\* ret == 0x0000
StatusOk(r) == r = NO_ERROR

\* the message of the ArduCamCriticalError raised for a returned status code:
\* f"...: {ret}, {ERROR_CODES[ret]}"
StatusMessage(r) == [kind |-> "status", code |-> r, label |-> ERROR_CODES[r]]

\* the message of the ArduCamCriticalError that wraps a RuntimeError
LibraryMessage == [kind |-> "library", code |-> 0, label |-> "interface library"]

\* an exception other than ArduCamCriticalError leaves __init__ / re_init
RaiseOut(exc) ==
    /\ raised' = exc
    /\ pc' = IF op = "ctor" THEN "failed" ELSE "idle"

\* except ArduCamCriticalError as error: logger.debug(error.msg)
CatchCritical(msg) ==
    /\ logmsg' = msg
    /\ pc' = "idle"
    /\ raised' = raised

\* what follows a status code r returned by the native layer
CheckStatus(r, okpc) ==
    IF StatusOk(r)
    THEN pc' = okpc /\ UNCHANGED <<logmsg, raised>>
    ELSE IF r \in DOMAIN ERROR_CODES
         THEN CatchCritical(StatusMessage(r))
         ELSE RaiseOut("KeyError") /\ UNCHANGED logmsg

Construct(id) ==
    /\ pc \in {"new", "failed"}
    /\ cam_id' = id
    /\ active' = FALSE
    /\ init_done' = FALSE
    /\ op' = "ctor"
    /\ pc' = "init_check"
    /\ raised' = "none"
    /\ logmsg' = NoLog
    /\ trace' = <<>>
    /\ ret' = NO_ERROR
    /\ closed' = FALSE
    /\ cap' = NoCapture
    /\ UNCHANGED <<new_id, lastcall, regs, flaky, mgrVars, threadVars>>

InitCheck ==
    /\ pc = "init_check"
    /\ IF IsIntId(cam_id)
       THEN pc' = "init_dev" /\ raised' = raised
       ELSE RaiseOut("TypeError")
    /\ ret' = NO_ERROR
    /\ UNCHANGED <<op, new_id, cam_id, active, init_done, logmsg, trace, lastcall,
                   closed, cap, regs, flaky, mgrVars, threadVars>>

InitDevice ==
    /\ pc = "init_dev"
    /\ lastcall' = Call("initialize_device", cam_id)
    /\ trace' = Append(trace, Call("initialize_device", cam_id))
    /\ \E out \in StatusOutcomes :
         IF out.kind = "RuntimeError"
         THEN CatchCritical(LibraryMessage) /\ ret' = ret
         ELSE ret' = out.code /\ CheckStatus(out.code, "begin_cap")
    /\ UNCHANGED <<op, new_id, cam_id, active, init_done, closed, cap, regs,
                   flaky, mgrVars, threadVars>>

\* begin_capture succeeds and self._active is left as it was
ActiveAfterBegin_m(r) == active

\* self._active after begin_capture returned r
ActiveAfterBegin(r) == IF StatusOk(r) THEN TRUE ELSE active

BeginCapture ==
    /\ pc = "begin_cap"
    /\ lastcall' = Call("begin_capture", cam_id)
    /\ trace' = Append(trace, Call("begin_capture", cam_id))
    /\ \E out \in StatusOutcomes :
         IF out.kind = "RuntimeError"
         THEN CatchCritical(LibraryMessage) /\ ret' = ret /\ active' = active
         ELSE /\ ret' = out.code
              /\ CheckStatus(out.code, "init_ret")
              /\ active' = ActiveAfterBegin(out.code)
    /\ UNCHANGED <<op, new_id, cam_id, init_done, closed, cap, regs, flaky, mgrVars, threadVars>>

\* else: self._init_done = True
InitReturn ==
    /\ pc = "init_ret"
    /\ init_done' = TRUE
    /\ pc' = "idle"
    /\ UNCHANGED <<op, new_id, cam_id, active, ret, raised, logmsg, trace, lastcall,
                   closed, cap, regs, flaky, mgrVars, threadVars>>

----------------------------------------------------------------------------
(* close and re_init *)

Close ==
    /\ pc = "idle"
    /\ op' = "close"
    /\ pc' = "end_cap"
    /\ trace' = <<>>
    /\ raised' = "none"
    /\ UNCHANGED <<new_id, cam_id, active, init_done, ret, logmsg, lastcall, closed,
                   cap, regs, flaky, mgrVars, threadVars>>

\* re_init without `self._active = False`
ReInit_keepsActive(id) ==
    /\ pc = "idle"
    /\ init_done' = FALSE
    /\ op' = "re_init"
    /\ new_id' = id
    /\ pc' = "end_cap"
    /\ trace' = <<>>
    /\ raised' = "none"
    /\ logmsg' = NoLog
    /\ UNCHANGED <<active, cam_id, ret, lastcall, closed, cap, regs, flaky, mgrVars, threadVars>>

\* re_init without `self._init_done = False`
ReInit_keepsInitDone(id) ==
    /\ pc = "idle"
    /\ active' = FALSE
    /\ op' = "re_init"
    /\ new_id' = id
    /\ pc' = "end_cap"
    /\ trace' = <<>>
    /\ raised' = "none"
    /\ logmsg' = NoLog
    /\ UNCHANGED <<init_done, cam_id, ret, lastcall, closed, cap, regs, flaky, mgrVars, threadVars>>

ReInit(id) ==
    /\ pc = "idle"
    /\ active' = FALSE
    /\ init_done' = FALSE
    /\ op' = "re_init"
    /\ new_id' = id
    /\ pc' = "end_cap"
    /\ trace' = <<>>
    /\ raised' = "none"
    /\ logmsg' = NoLog
    /\ UNCHANGED <<cam_id, ret, lastcall, closed, cap, regs, flaky, mgrVars, threadVars>>

\* close() is over: back to its caller
CloseDone ==
    /\ closed' = TRUE
    /\ pc' = IF op = "re_init" THEN "adopt" ELSE "idle"

EndCapture ==
    /\ pc = "end_cap"
    /\ lastcall' = Call("end_capture", cam_id)
    /\ trace' = Append(trace, Call("end_capture", cam_id))
    /\ \E out \in ShutdownOutcomes :
         IF out = "ok"
         THEN pc' = "close_dev" /\ closed' = closed
         ELSE CloseDone
    /\ UNCHANGED <<op, new_id, cam_id, active, init_done, ret, raised, logmsg, cap,
                   regs, flaky, mgrVars, threadVars>>

CloseDevice ==
    /\ pc = "close_dev"
    /\ lastcall' = Call("close_device", cam_id)
    /\ trace' = Append(trace, Call("close_device", cam_id))
    /\ CloseDone
    /\ UNCHANGED <<op, new_id, cam_id, active, init_done, ret, raised, logmsg, cap,
                   regs, flaky, mgrVars, threadVars>>

\* self._cam_id = new_id
Adopt ==
    /\ pc = "adopt"
    /\ cam_id' = new_id
    /\ closed' = FALSE
    /\ pc' = "init_check"
    /\ UNCHANGED <<op, new_id, active, init_done, ret, raised, logmsg, trace,
                   lastcall, cap, regs, flaky, mgrVars, threadVars>>

----------------------------------------------------------------------------
(* capture_frame *)

\* return np.zeros(self._frame_size)
ZeroFrame(fs) ==
    [raised |-> "none", shape |-> "bare", buffer |-> "zeros", dims |-> fs]

\* return np.array(img), time.time()
ImageFrame(fs) ==
    [raised |-> "none", shape |-> "pair", buffer |-> "image", dims |-> fs]

\* raise ArduCamCaptureError(...)
CaptureError ==
    [raised |-> "ArduCamCaptureError", shape |-> "none", buffer |-> "none",
     dims |-> <<0, 0>>]

\* the guard on self._active is missing
SkipsNative_m(a) == FALSE

\* if not self._active
SkipsNative(a) == ~a

\* the capture error also deactivates the source
ActiveAfterCapture_m(out) == IF out = "RuntimeError" THEN FALSE ELSE active

\* self._active after ac.capture_img answered: capture_frame never assigns it
ActiveAfterCapture(out) == active

\* a missing image is raised as a capture error
NoImageResult_m(fs) == CaptureError

\* if img is None: log, return np.zeros(self._frame_size)
NoImageResult(fs) == ZeroFrame(fs)

\* nat: whether ac.capture_img was called; out: what it answered
CapRecord(res, nat, out) ==
    [called |-> TRUE, was_active |-> active, was_closed |-> closed, native |-> nat,
     answer |-> out, raised |-> res.raised, shape |-> res.shape,
     buffer |-> res.buffer, dims |-> res.dims]

CaptureFrame ==
    /\ Constructed
    /\ IF SkipsNative(active)
       THEN /\ cap' = CapRecord(ZeroFrame(AC_FRAME_SIZE), FALSE, "none")
            /\ UNCHANGED <<lastcall, active>>
       ELSE /\ lastcall' = Call("capture_img", cam_id)
            /\ \E out \in CaptureOutcomes :
                 /\ cap' = CapRecord(
                               CASE out = "RuntimeError" -> CaptureError
                                 [] out = "None" -> NoImageResult(AC_FRAME_SIZE)
                                 [] OTHER -> ImageFrame(AC_FRAME_SIZE),
                               TRUE, out)
                 /\ active' = ActiveAfterCapture(out)
    /\ UNCHANGED <<pc, op, new_id, cam_id, init_done, ret, raised, logmsg, trace,
                   closed, regs, flaky, mgrVars, threadVars>>

----------------------------------------------------------------------------
(* Python string handling used by the register codec.  A hex string is a   *)
(* sequence of digits 0..15, most significant first; positions are Python's *)
(* (0-based).                                                               *)

RECURSIVE Hex(_)
\* hex(n)[2:] for n >= 0
Hex(n) == IF n < 16 THEN <<n>> ELSE Append(Hex(n \div 16), n % 16)

RECURSIVE RJust(_, _)
\* s.rjust(width, '0')
RJust(s, width) == IF Len(s) >= width THEN s ELSE RJust(<<0>> \o s, width)

\* s[i]
At(s, i) == s[i + 1]

\* s[a:b]
Slice(s, a, b) == SubSeq(s, a + 1, b)

RECURSIVE IntOf(_)
\* int(s, 16)
IntOf(s) == IF Len(s) = 0 THEN 0
            ELSE 16 * IntOf(SubSeq(s, 1, Len(s) - 1)) + s[Len(s)]

----------------------------------------------------------------------------
(* The exposure registers *)

REG_3500 == 13568
REG_3501 == 13569
REG_3502 == 13570

\* frame length: 0x380e (high byte), 0x380f (low byte)
REG_380E == 14350
REG_380F == 14351

RegAddrs == {REG_3500, REG_3501, REG_3502, REG_380E, REG_380F}

\* a device's registers: exposure bytes a, b, c and a frame length of 0x0320
Bank(a, b, c) ==
    (REG_3500 :> a) @@ (REG_3501 :> b) @@ (REG_3502 :> c)
        @@ (REG_380E :> 3) @@ (REG_380F :> 32)

\* the getter's three pieces, in the order it concatenates them
Piece3500(r) == <<At(RJust(Hex(r), 2), 1)>>
Piece3501(r) == RJust(Hex(r), 2)
\* [1:] in place of [:1]: the debug nibble is taken for the exposure's low nibble
Piece3502_m(r) == Slice(RJust(Hex(r), 2), 1, 2)

Piece3502(r) == Slice(RJust(Hex(r), 2), 0, 1)

\* the value the getter returns for register contents a, b, c
ExposureOf(a, b, c) == IntOf(Piece3500(a) \o Piece3501(b) \o Piece3502(c))

BankExposure(bank) == ExposureOf(bank[REG_3500], bank[REG_3501], bank[REG_3502])

\* the lower bound of the range is not checked
LegalExposure_m(v) == v <= 65535

\* assert 0 < new_exposure_time <= 0xffff
LegalExposure(v) == 0 < v /\ v <= 65535

\* h = hex(new_exposure_time)[2:].rjust(4, '0')
HexOfExposure(v) == RJust(Hex(v), 4)

\* int(w, 16) for the three bytes the setter writes
Byte3500(old, h) == IntOf(<<At(RJust(Hex(old), 2), 0), At(h, 0)>>)
Byte3501(h) == IntOf(Slice(h, 1, 3))
\* the low nibble is not read back: the debug bits are written as 0
Byte3502_m(old, h) == IntOf(<<At(h, 3), 0>>)

Byte3502(old, h) == IntOf(<<At(h, 3), At(RJust(Hex(old), 2), 1)>>)

\* ac.read_reg / ac.write_reg: return, or raise
RegOutcomes(id) ==
    (IF id.isint /\ id.n \in Devices THEN {"ok"} ELSE {})
        \cup (IF flaky \/ ~(id.isint /\ id.n \in Devices)
              THEN {"KeyError", "RuntimeError"} ELSE {})

\* what ac.read_reg(id, addr) returns when it returns
ReadReg(id, addr) == regs[id.n][addr]

\* the registers after ac.write_reg(id, addr, value) returned
WriteReg(id, addr, value) ==
    [regs EXCEPT ![id.n] = [@ EXCEPT ![addr] = value]]

CurrentBank == IF cam_id.isint /\ cam_id.n \in Devices
               THEN regs[cam_id.n] ELSE Bank(0, 0, 0)

NoResult == [op |-> "none", outcome |-> "none", value |-> 0, serializable |-> TRUE,
             after_set |-> 0 - 1]

\* the value written by the setter call that thread t finished just before this
\* getter call, or -1 when the call before was not a successful setter call
PrecedingSet(t) ==
    IF tres[t].op = "set" /\ tres[t].outcome = "ok" THEN tres[t].value ELSE 0 - 1

InSetter(u) == tpc[u] \in {"s_w3500", "s_w3501", "s_r3502", "s_w3502"}
InGetter(u) == tpc[u] \in {"g_3501", "g_3502"}

\* the accessor call of thread t ends with result r; a setter that ends on a
\* failed native call leaves the bank as a value a serialized getter may see
Finish(t, r) ==
    /\ tpc' = [tpc EXCEPT ![t] = "idle"]
    /\ tres' = [tres EXCEPT ![t] = r]
    /\ tv' = [tv EXCEPT ![t] = 0]
    /\ th' = [th EXCEPT ![t] = <<>>]
    /\ tw' = [tw EXCEPT ![t] = 0]
    /\ tacc' = [tacc EXCEPT ![t] = <<>>]
    /\ obs' = [u \in Threads |->
                 IF u = t THEN {}
                 ELSE IF InGetter(u) /\ r.op = "set" /\ r.outcome # "ok"
                      THEN obs[u] \cup {BankExposure(CurrentBank)}
                      ELSE obs[u]]

\* except KeyError: return -1 / pass; any other exception leaves the accessor
Failed(t, kind, out) ==
    Finish(t, [op |-> kind, outcome |-> out, value |-> 0 - 1, serializable |-> TRUE,
               after_set |-> 0 - 1])

Step(t, next) ==
    /\ tpc' = [tpc EXCEPT ![t] = next]
    /\ tres' = tres

\* thread t enters an accessor: its previous result is gone
Enter(t, kind, next) ==
    /\ tpc' = [tpc EXCEPT ![t] = next]
    /\ tres' = [tres EXCEPT ![t] = [op |-> kind, outcome |-> "pending", value |-> 0,
                                    serializable |-> TRUE,
                                    after_set |-> PrecedingSet(t)]]

----------------------------------------------------------------------------
(* exposure_time getter *)

\* exposures the getter of thread t may return if accessors are serialized
Observable(t) ==
    IF \E u \in Threads \ {t} : InSetter(u)
    THEN UNION {{BankExposure(tpre[u]), tv[u]} : u \in {x \in Threads \ {t} : InSetter(x)}}
    ELSE {BankExposure(CurrentBank)}

GetRead3500(t) ==
    /\ Constructed
    /\ tpc[t] = "idle"
    /\ lastcall' = Call("read_reg", cam_id)
    /\ \E out \in RegOutcomes(cam_id) :
         IF out = "ok"
         THEN /\ Enter(t, "get", "g_3501")
              /\ tacc' = [tacc EXCEPT ![t] = Piece3500(ReadReg(cam_id, REG_3500))]
              /\ obs' = [obs EXCEPT ![t] = Observable(t)]
              /\ UNCHANGED <<tv, th, tw>>
         ELSE Failed(t, "get", out)
    /\ UNCHANGED <<ownerVars, cap, regs, flaky, mgrVars, tpre>>

GetRead3501(t) ==
    /\ tpc[t] = "g_3501"
    /\ lastcall' = Call("read_reg", cam_id)
    /\ \E out \in RegOutcomes(cam_id) :
         IF out = "ok"
         THEN /\ Step(t, "g_3502")
              /\ tacc' = [tacc EXCEPT ![t] = @ \o Piece3501(ReadReg(cam_id, REG_3501))]
              /\ UNCHANGED <<tv, th, tw, obs>>
         ELSE Failed(t, "get", out)
    /\ UNCHANGED <<ownerVars, cap, regs, flaky, mgrVars, tpre>>

GetRead3502(t) ==
    /\ tpc[t] = "g_3502"
    /\ lastcall' = Call("read_reg", cam_id)
    /\ \E out \in RegOutcomes(cam_id) :
         IF out = "ok"
         THEN LET value == IntOf(tacc[t] \o Piece3502(ReadReg(cam_id, REG_3502)))
              IN Finish(t, [op |-> "get", outcome |-> "ok", value |-> value,
                            serializable |-> value \in obs[t],
                            after_set |-> tres[t].after_set])
         ELSE Failed(t, "get", out)
    /\ UNCHANGED <<ownerVars, cap, regs, flaky, mgrVars, tpre>>

----------------------------------------------------------------------------
(* frame_length *)

\* the getter evaluates self._idx_backup, which no statement of the class
\* assigns: AttributeError leaves the getter before ac.read_reg is called
FrameLength(t) ==
    /\ Constructed
    /\ tpc[t] = "idle"
    /\ Failed(t, "frame_length", "AttributeError")
    /\ UNCHANGED <<ownerVars, lastcall, cap, regs, flaky, mgrVars, tpre>>

----------------------------------------------------------------------------
(* exposure_time setter *)

SetDone(t) ==
    Finish(t, [op |-> "set", outcome |-> "ok", value |-> tv[t], serializable |-> TRUE,
               after_set |-> 0 - 1])

\* assert, h = ..., and the read of 0x3500
\* the assert fails: AssertionError leaves the setter (it is not a KeyError)
Rejected(t, v) ==
    Finish(t, [op |-> "set", outcome |-> "AssertionError", value |-> v,
               serializable |-> TRUE, after_set |-> 0 - 1])

SetRead3500(t, v) ==
    /\ Constructed
    /\ tpc[t] = "idle"
    /\ IF ~LegalExposure(v)
       THEN /\ Rejected(t, v)
            /\ tpre' = [tpre EXCEPT ![t] = CurrentBank]
            /\ lastcall' = lastcall
       ELSE /\ lastcall' = Call("read_reg", cam_id)
            /\ \E out \in RegOutcomes(cam_id) :
                 IF out = "ok"
                 THEN /\ Enter(t, "set", "s_w3500")
                      /\ tv' = [tv EXCEPT ![t] = v]
                      /\ th' = [th EXCEPT ![t] = HexOfExposure(v)]
                      /\ tw' = [tw EXCEPT ![t] =
                                  Byte3500(ReadReg(cam_id, REG_3500), HexOfExposure(v))]
                      /\ tpre' = [tpre EXCEPT ![t] = CurrentBank]
                      /\ obs' = [u \in Threads |->
                                   IF u # t /\ InGetter(u) THEN obs[u] \cup {v}
                                   ELSE obs[u]]
                      /\ tacc' = tacc
                 ELSE /\ Failed(t, "set", out)
                      /\ tpre' = [tpre EXCEPT ![t] = CurrentBank]
    /\ UNCHANGED <<ownerVars, cap, regs, flaky, mgrVars>>

\* one ac.write_reg of the setter: write `value` to addr, then go to `next`
SetWrite(t, addr, value, next) ==
    /\ lastcall' = Call("write_reg", cam_id)
    /\ \E out \in RegOutcomes(cam_id) :
         IF out = "ok"
         THEN /\ regs' = WriteReg(cam_id, addr, value)
              /\ IF next = "idle"
                 THEN SetDone(t) /\ tpre' = [tpre EXCEPT ![t] = Bank(0, 0, 0)]
                 ELSE Step(t, next) /\ UNCHANGED <<tv, th, tw, tacc, obs, tpre>>
         ELSE Failed(t, "set", out) /\ UNCHANGED <<regs, tpre>>
    /\ UNCHANGED <<ownerVars, cap, flaky, mgrVars>>

SetWrite3500(t) ==
    /\ tpc[t] = "s_w3500"
    /\ SetWrite(t, REG_3500, tw[t], "s_w3501")

SetWrite3501(t) ==
    /\ tpc[t] = "s_w3501"
    /\ SetWrite(t, REG_3501, Byte3501(th[t]), "s_r3502")

SetRead3502(t) ==
    /\ tpc[t] = "s_r3502"
    /\ lastcall' = Call("read_reg", cam_id)
    /\ \E out \in RegOutcomes(cam_id) :
         IF out = "ok"
         THEN /\ Step(t, "s_w3502")
              /\ tw' = [tw EXCEPT ![t] = Byte3502(ReadReg(cam_id, REG_3502), th[t])]
              /\ UNCHANGED <<tv, th, tacc, obs>>
         ELSE Failed(t, "set", out)
    /\ UNCHANGED <<ownerVars, cap, regs, flaky, mgrVars, tpre>>

SetWrite3502(t) ==
    /\ tpc[t] = "s_w3502"
    /\ SetWrite(t, REG_3502, tw[t], "idle")

----------------------------------------------------------------------------
(* ArduCamManager and the devices the native layer sees *)

\* a device is plugged in; the native layer lists it last
Attach(d) ==
    /\ Len(attached) < MaxAttached
    /\ \A i \in 1..Len(attached) :
         attached[i].serial # d.serial /\ attached[i].usb_index # d.usb_index
    /\ attached' = Append(attached, d)
    /\ fresh' = FALSE
    /\ UNCHANGED <<ownerVars, lastcall, cap, regs, flaky, threadVars, mgr_pc,
                   mgr_devices, listing>>

\* the i-th device is unplugged
Detach(i) ==
    /\ i \in 1..Len(attached)
    /\ attached' = SubSeq(attached, 1, i - 1) \o SubSeq(attached, i + 1, Len(attached))
    /\ fresh' = FALSE
    /\ UNCHANGED <<ownerVars, lastcall, cap, regs, flaky, threadVars, mgr_pc,
                   mgr_devices, listing>>

\* get_devices answers from self._devices without asking the native layer
QueryDevices_m == mgr_devices

\* ac.get_devices()
QueryDevices == attached

\* [(device.serial, device.usb_index) for device in self._devices]
PairsOf(ds) == [i \in 1..Len(ds) |-> <<ds[i].serial, ds[i].usb_index>>]

\* ArduCamManager.__init__
ManagerInit ==
    /\ mgr_pc = "new"
    /\ mgr_devices' = QueryDevices
    /\ mgr_pc' = "ready"
    /\ UNCHANGED <<ownerVars, lastcall, cap, regs, flaky, threadVars, attached,
                   listing, fresh>>

\* ArduCamManager.get_devices
GetDevices ==
    /\ mgr_pc = "ready"
    /\ mgr_devices' = QueryDevices
    /\ listing' = PairsOf(mgr_devices')
    /\ fresh' = TRUE
    /\ UNCHANGED <<ownerVars, lastcall, cap, regs, flaky, threadVars, attached,
                   mgr_pc>>

----------------------------------------------------------------------------
(* Specifications *)

\* register contents before the program touches them
PriorBytes == {0, 7, 90, 240, 255}

\* new_exposure_time values: 0 and 0x10000 are out of range; the legal ones put
\* a non-zero digit in each of the four hex positions, alone and together
ExposureInputs == {0, 1, 16, 256, 4096, 4660, 43981, 65535, 65536}

\* the values two racing configuration threads write
RaceExposures == {4660, 43981}

ThreadsIdle ==
    /\ tpc = [t \in Threads |-> "idle"]
    /\ tv = [t \in Threads |-> 0]
    /\ th = [t \in Threads |-> <<>>]
    /\ tw = [t \in Threads |-> 0]
    /\ tacc = [t \in Threads |-> <<>>]
    /\ tres = [t \in Threads |-> NoResult]
    /\ tpre = [t \in Threads |-> Bank(0, 0, 0)]
    /\ obs = [t \in Threads |-> {}]

\* before any ArduCamManager is constructed; nothing is attached
NoManager ==
    /\ attached = <<>>
    /\ mgr_pc = "new"
    /\ mgr_devices = <<>>
    /\ listing = <<>>
    /\ fresh = FALSE

\* before any ArduCamSource is constructed
Init ==
    /\ pc = "new"
    /\ op = "none"
    /\ new_id = IntId(0)
    /\ cam_id = IntId(0)
    /\ active = FALSE
    /\ init_done = FALSE
    /\ ret = NO_ERROR
    /\ raised = "none"
    /\ logmsg = NoLog
    /\ trace = <<>>
    /\ lastcall = NoCall
    /\ closed = FALSE
    /\ cap = NoCapture
    /\ regs = [d \in Devices |-> Bank(90, 0, 90)]
    /\ flaky = TRUE
    /\ ThreadsIdle
    /\ NoManager

\* ArduCamSource(0, ...) has returned with both native calls successful
OpenedDevice0 ==
    /\ pc = "idle"
    /\ op = "ctor"
    /\ new_id = IntId(0)
    /\ cam_id = IntId(0)
    /\ active = TRUE
    /\ init_done = TRUE
    /\ ret = NO_ERROR
    /\ raised = "none"
    /\ logmsg = NoLog
    /\ trace = <<Call("initialize_device", IntId(0)), Call("begin_capture", IntId(0))>>
    /\ lastcall = Call("begin_capture", IntId(0))
    /\ closed = FALSE
    /\ cap = NoCapture
    /\ ThreadsIdle
    /\ NoManager

InitReg ==
    /\ OpenedDevice0
    /\ flaky = TRUE
    /\ \E a \in PriorBytes, b \in {0, 255}, c \in PriorBytes :
         regs = [d \in Devices |-> IF d = 0 THEN Bank(a, b, c) ELSE Bank(0, 0, 0)]

\* the native layer answers every register call, so that what the threads see
\* comes from their interleaving alone
InitRace ==
    /\ OpenedDevice0
    /\ flaky = FALSE
    /\ \E a \in {0, 90}, c \in {0, 90} :
         regs = [d \in Devices |-> IF d = 0 THEN Bank(a, 0, c) ELSE Bank(0, 0, 0)]

\* the owner and the frame consumer
Next ==
    \/ \E id \in IdInputs : Construct(id)
    \/ InitCheck
    \/ InitDevice
    \/ BeginCapture
    \/ InitReturn
    \/ Close
    \/ \E id \in IdInputs : ReInit(id)
    \/ EndCapture
    \/ CloseDevice
    \/ Adopt
    \/ CaptureFrame

Spec == Init /\ [][Next]_vars

\* one configuration thread on an opened device
NextReg ==
    \/ GetRead3500(1)
    \/ GetRead3501(1)
    \/ GetRead3502(1)
    \/ \E v \in ExposureInputs : SetRead3500(1, v)
    \/ SetWrite3500(1)
    \/ SetWrite3501(1)
    \/ SetRead3502(1)
    \/ SetWrite3502(1)
    \/ FrameLength(1)

SpecReg == InitReg /\ [][NextReg]_vars

\* two configuration threads on an opened device
NextRace ==
    \E t \in Threads :
        \/ GetRead3500(t)
        \/ GetRead3501(t)
        \/ GetRead3502(t)
        \/ \E v \in RaceExposures : SetRead3500(t, v)
        \/ SetWrite3500(t)
        \/ SetWrite3501(t)
        \/ SetRead3502(t)
        \/ SetWrite3502(t)

SpecRace == InitRace /\ [][NextRace]_vars

----------------------------------------------------------------------------
(* Properties *)

\* the label a logged message is to carry for status code r
LabelOrFallback(r) ==
    IF r \in DOMAIN ERROR_CODES THEN ERROR_CODES[r] ELSE "unknown hardware error"

\* the constructor has ended after the native layer returned a non-zero status
CtorEndedOnStatus == op = "ctor" /\ pc \in {"idle", "failed"} /\ ret # NO_ERROR

\* C1: whenever the constructor ends after initialize_device or begin_capture
\* returned a status other than 0x0000, nothing was raised to the caller,
\* init_done and active are false, and the logged message carries the code's
\* label from ERROR_CODES, or the fallback label for a code not in the table.
C1_NonZeroStatusLeavesInert ==
    CtorEndedOnStatus =>
        /\ raised = "none"
        /\ pc = "idle"
        /\ ~init_done
        /\ ~active
        /\ logmsg.kind = "status"
        /\ logmsg.label = LabelOrFallback(ret)

\* the constructor has returned and both native calls returned 0x0000
CtorAllSuccess ==
    /\ op = "ctor"
    /\ pc = "idle"
    /\ cam_id.isint
    /\ Len(trace) = 2
    /\ ret = NO_ERROR
    /\ logmsg.kind = "none"

\* C2: for every integer id, when initialize_device and begin_capture both
\* return 0x0000 the constructed source has init_done = true and active = true.
C2_SuccessYieldsReady == CtorAllSuccess => (init_done /\ active)

C2_Witness == CtorAllSuccess /\ init_done /\ active /\ cam_id.n < 0

\* C3: a capture_frame made after close() and before a re_init does not ask
\* the native layer for a frame.
C3_ClosedSourceNotCaptured == (cap.called /\ cap.was_closed) => ~cap.native

\* C4: in every state, the intermediate ones of the constructor and of re_init
\* included, active = true implies init_done = true.
C4_ActiveImpliesInitDone == active => init_done

\* C5: a capture_frame on a source whose active is false returns a zero-filled
\* buffer of frame_size dimensions, raises nothing and makes no native call.
C5_InactiveCaptureIsBlank ==
    (cap.called /\ ~cap.was_active) =>
        /\ cap.buffer = "zeros"
        /\ cap.dims = AC_FRAME_SIZE
        /\ ~cap.native
        /\ cap.raised = "none"

\* a blank frame taken after a re_init that failed on a status code
C5_Witness ==
    /\ cap.called
    /\ ~cap.was_active
    /\ cap.buffer = "zeros"
    /\ op = "re_init"
    /\ pc = "idle"
    /\ logmsg.kind = "status"

\* C6: every capture_frame that returns, degraded or not, returns a pair
\* (buffer, optional timestamp) and never a bare buffer.
C6_UniformReturnShape == (cap.called /\ cap.raised = "none") => cap.shape = "pair"

\* C7: when a set_exposure call ends on a failed native read or write, the
\* registers 0x3500, 0x3501, 0x3502 hold what they held when the call began.
C7_SetterAllOrNothing ==
    \A t \in Threads :
        (/\ tpc[t] = "idle"
         /\ tres[t].op = "set"
         /\ tres[t].outcome \in {"KeyError", "RuntimeError"})
            => CurrentBank = tpre[t]

\* a getter that ran to its end returned a value a serialized execution allows
GetterSerialized ==
    \A t \in Threads :
        (tpc[t] = "idle" /\ tres[t].op = "get" /\ tres[t].outcome = "ok")
            => tres[t].serializable

\* after two setter calls, one per thread, the exposure is one of the two values
SettersSerialized ==
    (\A t \in Threads :
        tpc[t] = "idle" /\ tres[t].op = "set" /\ tres[t].outcome = "ok")
        => BankExposure(CurrentBank) \in {tres[t].value : t \in Threads}

\* C8: register accesses are serialized: a get_exposure that overlaps
\* set_exposure(v) returns the exposure before the write or v, and two
\* overlapping set_exposure calls leave the exposure equal to one of their values.
C8_AccessorsSerialized == GetterSerialized /\ SettersSerialized

\* C9: a get_exposure that follows a successful set_exposure(v) on the same
\* device, with no register write in between, returns v, for every legal v
\* and every prior content of the three registers.
C9_ExposureRoundTrip ==
    \A t \in Threads :
        (/\ tpc[t] = "idle"
         /\ tres[t].op = "get"
         /\ tres[t].outcome = "ok"
         /\ tres[t].after_set # 0 - 1)
            => tres[t].value = tres[t].after_set

\* 0xABCD read back over registers whose unused and debug nibbles are not zero
C9_Witness ==
    /\ tpc[1] = "idle"
    /\ tres[1].op = "get"
    /\ tres[1].outcome = "ok"
    /\ tres[1].after_set = 43981
    /\ tres[1].value = 43981
    /\ regs[0][REG_3500] \div 16 = 15
    /\ regs[0][REG_3502] % 16 = 10

\* C10: every call into the native layer passes an id that is a non-negative
\* integer.
C10_NativeIdNonNegative ==
    lastcall.fn # "none" => (lastcall.id.isint /\ lastcall.id.n >= 0)

\* C11: constructing a source with a non-integer id ends with a TypeError raised
\* to the caller, and no native call is made at any point of that construction.
C11_NonIntIdFailsBeforeNative ==
    (op = "ctor" /\ ~cam_id.isint) =>
        /\ trace = <<>>
        /\ pc \in {"init_check", "failed"}
        /\ pc = "failed" => raised = "TypeError"

C11_Witness ==
    op = "ctor" /\ ~cam_id.isint /\ pc = "failed" /\ raised = "TypeError" /\ trace = <<>>

\* C12: a set_exposure call with a value outside 1..0xFFFF does not complete as
\* a write and leaves registers 0x3500, 0x3501, 0x3502 as they were when the
\* call began, so the exposure read back afterwards is the one before the call.
C12_OutOfRangeIsNoOp ==
    \A t \in Threads :
        (/\ tpc[t] = "idle"
         /\ tres[t].op = "set"
         /\ (tres[t].value = 0 \/ tres[t].value > 65535))
            => /\ tres[t].outcome # "ok"
               /\ CurrentBank = tpre[t]
               /\ BankExposure(CurrentBank) = BankExposure(tpre[t])

\* set_exposure(0x10000) refused over registers that hold a non-zero exposure
C12_Witness ==
    /\ tpc[1] = "idle"
    /\ tres[1].op = "set"
    /\ tres[1].value = 65536
    /\ tres[1].outcome = "AssertionError"
    /\ CurrentBank = tpre[1]
    /\ BankExposure(CurrentBank) = 43981

\* re_init has not yet got past the native calls of the new initialization
ReInitBeforeOutcome ==
    op = "re_init" /\ pc \in {"end_cap", "close_dev", "adopt", "init_check",
                               "init_dev", "begin_cap"}

\* re_init has ended and its initialization protocol did not succeed
ReInitEndedUnsuccessful ==
    op = "re_init" /\ pc = "idle" /\ (raised # "none" \/ logmsg.kind # "none")

\* C13: from the start of re_init up to the native calls of the new
\* initialization, active and init_done are false, whatever the new id; and
\* when that initialization does not succeed (status code, native exception,
\* invalid id) both are false when re_init ends.
C13_ReInitResetsFirst ==
    (ReInitBeforeOutcome \/ ReInitEndedUnsuccessful) => (~active /\ ~init_done)

\* a re_init that got as far as begin_capture and failed on its status code
C13_Witness ==
    /\ ReInitEndedUnsuccessful
    /\ logmsg.kind = "status"
    /\ Len(trace) >= 3
    /\ trace[Len(trace)].fn = "begin_capture"
    /\ ~active
    /\ ~init_done

\* C14: a capture_frame on an active source in which the native layer raises
\* ends with a capture error for the caller and changes neither active nor
\* init_done; the capture_frame after it asks the native layer again.
C14_CaptureErrorKeepsActive ==
    [][/\ (cap' # cap /\ cap'.answer = "RuntimeError") =>
            /\ cap'.raised = "ArduCamCaptureError"
            /\ active /\ active'
            /\ init_done' = init_done
       /\ (cap.answer = "RuntimeError" /\ cap'.called /\ pc' = pc /\ active) =>
            cap'.native]_vars

C14_Witness ==
    /\ cap.answer = "RuntimeError"
    /\ cap.raised = "ArduCamCaptureError"
    /\ pc = "idle"
    /\ active
    /\ init_done

\* C15: a capture_frame on an active source to which the native layer answers
\* None raises nothing, returns a zero-filled buffer of frame_size dimensions
\* (the buffer of the inactive case) and leaves the source active.
C15_NoImageIsBlank ==
    [][(cap' # cap /\ cap'.answer = "None") =>
            /\ cap'.raised = "none"
            /\ cap'.buffer = ZeroFrame(AC_FRAME_SIZE).buffer
            /\ cap'.dims = AC_FRAME_SIZE
            /\ active /\ active']_vars

C15_Witness ==
    /\ cap.answer = "None"
    /\ cap.buffer = "zeros"
    /\ cap.dims = AC_FRAME_SIZE
    /\ cap.raised = "none"
    /\ active


\* the manager and the devices that come and go
NextMgr ==
    \/ \E d \in DeviceInputs : Attach(d)
    \/ \E i \in 1..MaxAttached : Detach(i)
    \/ ManagerInit
    \/ GetDevices

SpecMgr == Init /\ [][NextMgr]_vars

\* C16: as long as no device was attached or detached since the last
\* get_devices call, what that call returned is the (serial, index) pairs of
\* the devices attached now, in the native layer's order: the call asked the
\* native layer and did not answer from an earlier call; with nothing attached
\* it is the empty sequence.
C16_ListingIsCurrent ==
    fresh =>
        /\ Len(listing) = Len(attached)
        /\ \A i \in 1..Len(attached) :
             listing[i] = <<attached[i].serial, attached[i].usb_index>>

\* two devices listed in the native layer's order, which is not sorted by serial
C16_Witness ==
    /\ fresh
    /\ Len(attached) = 2
    /\ attached[1].serial = "B"
    /\ attached[2].serial = "A"
    /\ listing = <<<<"B", attached[1].usb_index>>, <<"A", attached[2].usb_index>>>>

\* the bits of a bank that the exposure does not own: the high nibble of
\* 0x3500 and the low nibble of 0x3502
ForeignBits(bank) == <<bank[REG_3500] \div 16, bank[REG_3502] % 16>>

\* C17: when a set_exposure call completes, the high nibble of 0x3500 and the
\* low nibble of 0x3502 are what they were when the call began, for every
\* legal value and every prior register content.
C17_SetterKeepsForeignBits ==
    [][\A t \in Threads :
          (tpc[t] = "s_w3502" /\ tpc'[t] = "idle" /\ tres'[t].outcome = "ok")
              => ForeignBits(regs'[cam_id.n]) = ForeignBits(tpre[t])]_vars

\* 0xABCD written over 0x3500 = 0xF0 and 0x3502 = 0x5A: the F and the A remain
C17_Witness ==
    /\ tpc[1] = "idle"
    /\ tres[1].op = "set"
    /\ tres[1].outcome = "ok"
    /\ tres[1].value = 43981
    /\ regs[0][REG_3500] = 250
    /\ regs[0][REG_3502] = 218

\* C18: in every re_init, whenever initialize_device has been called for the
\* new id, close_device was called for the old id before it, also when
\* end_capture raised during the teardown.
C18_CloseDeviceBeforeInit ==
    op = "re_init" =>
        \A i \in 1..Len(trace) :
            trace[i].fn = "initialize_device" =>
                \E j \in 1..(i - 1) : trace[j].fn = "close_device"

\* C19: reading frame_length on a constructed source returns
\* 256 * register(0x380e) + register(0x380f) of the device the source owns.
C19_FrameLengthFromOwnDevice ==
    \A t \in Threads :
        (tpc[t] = "idle" /\ tres[t].op = "frame_length") =>
            /\ tres[t].outcome = "ok"
            /\ tres[t].value = 256 * CurrentBank[REG_380E] + CurrentBank[REG_380F]

\* C20: whenever no constructor or re_init is in progress on a constructed
\* source, active and init_done have the same value, also after a re_init
\* that raised.
C20_FlagsAgreeAtBoundaries ==
    (Constructed /\ pc = "idle") => (active = init_done)

\* a re_init that raised KeyError on an unlisted status code: both flags are false
C20_Witness ==
    /\ pc = "idle"
    /\ op = "re_init"
    /\ raised = "KeyError"
    /\ Len(trace) >= 3
    /\ ~active
    /\ ~init_done

====
